---- MODULE Spec2Model ----
(***************************************************************************)
(* The Hack assembler of src/Assembler.cpp as a state machine: the two     *)
(* scans of Assembler::assemble over one source file, the Parser each scan *)
(* constructs, the SymbolTable and the Code tables.                        *)
(*                                                                         *)
(* A std::string is a sequence of one-character strings.  The source file  *)
(* is the sequence of its segments between line breaks: the file "@1\n"    *)
(* is << <<"@","1">>, <<>> >>, the empty file is << <<>> >>; this is what  *)
(* successive std::getline calls return.                                   *)
(***************************************************************************)
EXTENDS Integers, Sequences, FiniteSets, TLC

\* ------------------------------------------------------------- bounds
\* Longest source file, in segments.
MaxLines == 3
\* Cap of pass 1's counter; only the scan of an unreadable file reaches it.
MaxRom == 6
\* Longest line of the parser-only specification.
MaxLen == 4

\* ------------------------------------------------------------- constants
ADDRESS_LEN == 15
VAR_ADDRESS == 16

A_COMMAND == "A_COMMAND"
C_COMMAND == "C_COMMAND"
L_COMMAND == "L_COMMAND"
INVALID_COMMAND == "INVALID_COMMAND"
CommandType == {A_COMMAND, C_COMMAND, L_COMMAND, INVALID_COMMAND}

\* Parser::commandType has no initializer: until the first parseCommand its
\* value is whatever the build left there, one of the enumerators or a value
\* that is none of them.
GARBAGE == "GARBAGE"
UninitializedCommandType == CommandType \cup {GARBAGE}

\* ------------------------------------------------------------- std::string
\* size_t arithmetic wraps.  The width is 64 bits in the build; the model
\* wraps at 2^30, which TLC's integers can hold: every index is below the
\* length of a line, so a wrapped difference exceeds every line length at
\* either width.
SizeMod == 2^30
npos == SizeMod - 1

Min(a, b) == IF a < b THEN a ELSE b

\* s.find(c): 0-based index of the first c, or npos.
Find(s, c) ==
    IF \E i \in 1..Len(s) : s[i] = c
    THEN (CHOOSE i \in 1..Len(s) : s[i] = c /\ \A j \in 1..(i - 1) : s[j] # c) - 1
    ELSE npos

\* s.find("//"): 0-based index of the first two consecutive slashes, or npos.
FindComment(s) ==
    LET At(i) == s[i] = "/" /\ s[i + 1] = "/"
    IN  IF \E i \in 1..(Len(s) - 1) : At(i)
        THEN (CHOOSE i \in 1..(Len(s) - 1) : At(i) /\ \A j \in 1..(i - 1) : ~At(j)) - 1
        ELSE npos

\* s.substr(pos, count), for pos <= s.size(): the characters [pos, pos+count)
\* that exist.
Substr(s, pos, count) == SubSeq(s, pos + 1, Min(pos + count, Len(s)))

\* The vertical tab (0x0B), which has no escape in a TLA+ string: the raw
\* character.
VerticalTab == ""

\* ::isspace in the "C" locale: space, \t, \n, \v, \f, \r.
isspace(c) == c \in {" ", "\t", "\n", VerticalTab, "\f", "\r"}

\* erase(remove_if(begin, end, ::isspace), end)
RemoveSpace(s) == SelectSeq(s, LAMBDA c : ~isspace(c))

Digits == <<"0", "1", "2", "3", "4", "5", "6", "7", "8", "9">>
isdigit(c) == \E d \in 1..10 : Digits[d] = c
DigitValue(c) == (CHOOSE d \in 1..10 : Digits[d] = c) - 1

\* symbol[0]: the first character, '\0' for the empty string.
FirstChar(s) == IF s = <<>> THEN "\\0" ELSE s[1]

\* std::stoi on a string whose first character is a digit: the value of the
\* longest prefix of digits.  (A value beyond int makes stoi throw; the lines
\* of the model stay far below.)
RECURSIVE StoiFrom(_, _, _)
StoiFrom(s, i, acc) ==
    IF i > Len(s) \/ ~isdigit(s[i]) THEN acc
    ELSE StoiFrom(s, i + 1, 10 * acc + DigitValue(s[i]))
stoi(s) == StoiFrom(s, 1, 0)

\* std::bitset<w>(n).to_string(): the low w bits of n, most significant first.
Bitset(w, n) == [i \in 1..w |-> IF (n \div (2 ^ (w - i))) % 2 = 1 THEN "1" ELSE "0"]

\* unordered_map::operator[] as an update: the map after m[k] = v.
Store(m, k, v) == [x \in DOMAIN m \cup {k} |-> IF x = k THEN v ELSE m[x]]
\* unordered_map<string,string>::operator[] as a read: a missing key is
\* inserted with the empty string, which is the value read.
Touch(m, k) == IF k \in DOMAIN m THEN m ELSE Store(m, k, <<>>)

\* ------------------------------------------------------------- SymbolTable
RegisterName(i) ==
    IF i < 10 THEN <<"R", Digits[i + 1]>>
    ELSE <<"R", Digits[(i \div 10) + 1], Digits[(i % 10) + 1]>>

Registers == [s \in {RegisterName(i) : i \in 0..15} |->
                 CHOOSE i \in 0..15 : RegisterName(i) = s]

\* SymbolTable::SymbolTable
PredefinedTable ==
    Store(Store(Store(Store(Store(Store(Store(Registers,
        <<"S", "P">>, 0),
        <<"L", "C", "L">>, 1),
        <<"A", "R", "G">>, 2),
        <<"T", "H", "I", "S">>, 3),
        <<"T", "H", "A", "T">>, 4),
        <<"S", "C", "R", "E", "E", "N">>, 16384),
        <<"K", "B", "D">>, 24576)

NewSymbolTable == [table |-> PredefinedTable, nextVariableAddress |-> VAR_ADDRESS]

contains(st, sym) == sym \in DOMAIN st.table

\* Mutant: the binding is not stored.
addEntry_Dropped(st, sym, address) == st

addEntry(st, sym, address) == [st EXCEPT !.table = Store(st.table, sym, address)]

\* Mutant: every occurrence allocates, bound or not.
addVariable_Rebinds(st, sym) ==
    LET after == [table |-> Store(st.table, sym, st.nextVariableAddress),
                  nextVariableAddress |-> st.nextVariableAddress + 1]
    IN  [st |-> after, address |-> after.table[sym]]

\* SymbolTable::addVariable: the table afterwards, and the address returned.
addVariable(st, sym) ==
    LET after == IF ~contains(st, sym)
                 THEN [table |-> Store(st.table, sym, st.nextVariableAddress),
                       nextVariableAddress |-> st.nextVariableAddress + 1]
                 ELSE st
    IN  [st |-> after, address |-> after.table[sym]]

\* ------------------------------------------------------------- Code
\* Code::initDestTable
initDestTable ==
       (<<>> :> <<"0", "0", "0">>)
    @@ (<<"M">> :> <<"0", "0", "1">>)
    @@ (<<"D">> :> <<"0", "1", "0">>)
    @@ (<<"M", "D">> :> <<"0", "1", "1">>)
    @@ (<<"A">> :> <<"1", "0", "0">>)
    @@ (<<"A", "M">> :> <<"1", "0", "1">>)
    @@ (<<"A", "D">> :> <<"1", "1", "0">>)
    @@ (<<"A", "M", "D">> :> <<"1", "1", "1">>)

\* Code::initCompTable
initCompTable ==
       (<<"0">> :> <<"0", "1", "0", "1", "0", "1", "0">>)
    @@ (<<"1">> :> <<"0", "1", "1", "1", "1", "1", "1">>)
    @@ (<<"-", "1">> :> <<"0", "1", "1", "1", "0", "1", "0">>)
    @@ (<<"D">> :> <<"0", "0", "0", "1", "1", "0", "0">>)
    @@ (<<"A">> :> <<"0", "1", "1", "0", "0", "0", "0">>)
    @@ (<<"M">> :> <<"1", "1", "1", "0", "0", "0", "0">>)
    @@ (<<"!", "D">> :> <<"0", "0", "0", "1", "1", "0", "1">>)
    @@ (<<"!", "A">> :> <<"0", "1", "1", "0", "0", "0", "1">>)
    @@ (<<"!", "M">> :> <<"1", "1", "1", "0", "0", "0", "1">>)
    @@ (<<"-", "D">> :> <<"0", "0", "0", "1", "1", "1", "1">>)
    @@ (<<"-", "A">> :> <<"0", "1", "1", "0", "0", "1", "1">>)
    @@ (<<"-", "M">> :> <<"1", "1", "1", "0", "0", "1", "1">>)
    @@ (<<"D", "+", "1">> :> <<"0", "0", "1", "1", "1", "1", "1">>)
    @@ (<<"A", "+", "1">> :> <<"0", "1", "1", "0", "1", "1", "1">>)
    @@ (<<"M", "+", "1">> :> <<"1", "1", "1", "0", "1", "1", "1">>)
    @@ (<<"D", "-", "1">> :> <<"0", "0", "0", "1", "1", "1", "0">>)
    @@ (<<"A", "-", "1">> :> <<"0", "1", "1", "0", "0", "1", "0">>)
    @@ (<<"M", "-", "1">> :> <<"1", "1", "1", "0", "0", "1", "0">>)
    @@ (<<"D", "+", "A">> :> <<"0", "0", "0", "0", "0", "1", "0">>)
    @@ (<<"D", "+", "M">> :> <<"1", "0", "0", "0", "0", "1", "0">>)
    @@ (<<"D", "-", "A">> :> <<"0", "0", "1", "0", "0", "1", "1">>)
    @@ (<<"D", "-", "M">> :> <<"1", "0", "1", "0", "0", "1", "1">>)
    @@ (<<"A", "-", "D">> :> <<"0", "0", "0", "0", "1", "1", "1">>)
    @@ (<<"M", "-", "D">> :> <<"1", "0", "0", "0", "1", "1", "1">>)
    @@ (<<"D", "&", "A">> :> <<"0", "0", "0", "0", "0", "0", "0">>)
    @@ (<<"D", "&", "M">> :> <<"1", "0", "0", "0", "0", "0", "0">>)
    @@ (<<"D", "|", "A">> :> <<"0", "0", "1", "0", "1", "0", "1">>)
    @@ (<<"D", "|", "M">> :> <<"1", "0", "1", "0", "1", "0", "1">>)

\* Code::initJumpTable
initJumpTable ==
       (<<>> :> <<"0", "0", "0">>)
    @@ (<<"J", "G", "T">> :> <<"0", "0", "1">>)
    @@ (<<"J", "E", "Q">> :> <<"0", "1", "0">>)
    @@ (<<"J", "G", "E">> :> <<"0", "1", "1">>)
    @@ (<<"J", "L", "T">> :> <<"1", "0", "0">>)
    @@ (<<"J", "N", "E">> :> <<"1", "0", "1">>)
    @@ (<<"J", "L", "E">> :> <<"1", "1", "0">>)
    @@ (<<"J", "M", "P">> :> <<"1", "1", "1">>)

\* Mutant: D|M is given the code of D|A.
NewCode_DuplicateCode ==
    [destTable |-> initDestTable,
     compTable |-> Store(initCompTable, <<"D", "|", "M">>,
                         <<"0", "0", "1", "0", "1", "0", "1">>),
     jumpTable |-> initJumpTable]

\* Code::Code
NewCode == [destTable |-> initDestTable, compTable |-> initCompTable,
            jumpTable |-> initJumpTable]

\* Code::dest / Code::comp / Code::jump: the bits returned (operator[] yields
\* the empty string for a mnemonic the table lacks) ...
CodeDest(code, mnemonic) == Touch(code.destTable, mnemonic)[mnemonic]
CodeComp(code, mnemonic) == Touch(code.compTable, mnemonic)[mnemonic]
CodeJump(code, mnemonic) == Touch(code.jumpTable, mnemonic)[mnemonic]
\* ... and the tables after the three lookups of one compute command.
CodeAfterLookups(code, d, c, j) ==
    [destTable |-> Touch(code.destTable, d),
     compTable |-> Touch(code.compTable, c),
     jumpTable |-> Touch(code.jumpTable, j)]

\* ------------------------------------------------------------- Parser
\* Parser::Parser: the strings start empty, commandType is uninitialized;
\* pos counts the segments read from the file, eof is the stream's eofbit.
NewParser(uninit) ==
    [pos |-> 0, eof |-> FALSE, currentCommand |-> <<>>, commandType |-> uninit,
     symbol |-> <<>>, dest |-> <<>>, comp |-> <<>>, jump |-> <<>>]

hasMoreCommands(p) == ~p.eof

\* Parser::parseCCommand
parseCCommand(p) ==
    LET c == p.currentCommand
        eqPos == Find(c, "=")
        semiPos == Find(c, ";")
        q == IF eqPos # npos
             THEN [p EXCEPT !.dest = Substr(c, 0, eqPos),
                            !.comp = Substr(c, eqPos + 1,
                                            (semiPos - eqPos - 1 + SizeMod) % SizeMod)]
             ELSE [p EXCEPT !.dest = <<>>,
                            !.comp = Substr(c, 0, semiPos)]
    IN  IF semiPos # npos
        THEN [q EXCEPT !.jump = Substr(c, semiPos + 1, npos)]
        ELSE [q EXCEPT !.jump = <<>>]

\* Parser::parseCommand, called with a non-empty currentCommand
parseCommand(p) ==
    LET c == p.currentCommand
    IN  IF c[1] = "@"
        THEN [p EXCEPT !.commandType = A_COMMAND, !.symbol = Substr(c, 1, npos)]
        ELSE IF c[1] = "(" /\ c[Len(c)] = ")"
        THEN [p EXCEPT !.commandType = L_COMMAND, !.symbol = Substr(c, 1, Len(c) - 2)]
        ELSE IF Find(c, "=") # npos \/ Find(c, ";") # npos
        THEN parseCCommand([p EXCEPT !.commandType = C_COMMAND])
        ELSE [p EXCEPT !.commandType = INVALID_COMMAND]

\* Lines 85-86: cut at the comment marker, drop the whitespace.
StripLine(raw) == RemoveSpace(Substr(raw, 0, FindComment(raw)))

\* std::getline(file, currentCommand).  On a stream that failed to open the
\* sentry fails: nothing is read, the string is left alone and eofbit stays
\* clear.  Otherwise the next segment is read, and eofbit is set when the end
\* of the file, not a line break, ended it.
getline(p, isOpen, content) ==
    IF ~isOpen THEN p
    ELSE [p EXCEPT !.currentCommand = content[p.pos + 1],
                   !.pos = p.pos + 1,
                   !.eof = (p.pos + 1 = Len(content))]

\* Parser::advance
advance(p, isOpen, content) ==
    IF hasMoreCommands(p)
    THEN LET q == getline(p, isOpen, content)
             r == [q EXCEPT !.currentCommand = StripLine(q.currentCommand)]
         IN  IF r.currentCommand # <<>> THEN parseCommand(r) ELSE r
    ELSE p

\* ------------------------------------------------------------- Assembler
\* firstPass, lines 248-252: the symbol table and the counter after one
\* iteration whose advance() left the parser in state p.
FirstPassTable(st, p, rom) ==
    IF p.commandType = L_COMMAND THEN addEntry(st, p.symbol, rom) ELSE st

\* Mutant: a label declaration advances the counter too.
FirstPassRom_CountsLabels(p, rom) ==
    IF p.commandType # INVALID_COMMAND THEN rom + 1 ELSE rom

FirstPassRom(p, rom) ==
    IF p.commandType = L_COMMAND THEN rom
    ELSE IF p.commandType # INVALID_COMMAND THEN rom + 1
    ELSE rom

\* secondPass, lines 264-278: what one iteration does to the symbol table,
\* the Code tables and the output, given the parser state p after advance().
SecondPassAddress(st, p) ==
    IF isdigit(FirstChar(p.symbol))
    THEN [st |-> st, address |-> stoi(p.symbol)]
    ELSE addVariable(st, p.symbol)

SecondPassTable(st, p) ==
    IF p.commandType = A_COMMAND THEN SecondPassAddress(st, p).st ELSE st

SecondPassCode(cd, p) ==
    IF p.commandType = C_COMMAND THEN CodeAfterLookups(cd, p.dest, p.comp, p.jump)
    ELSE cd

SecondPassOutput(out, st, cd, p) ==
    IF p.commandType = A_COMMAND
    THEN Append(out, <<"0">> \o Bitset(ADDRESS_LEN, SecondPassAddress(st, p).address))
    ELSE IF p.commandType = C_COMMAND
    THEN Append(out, <<"1", "1", "1">> \o CodeComp(cd, p.comp)
                        \o CodeDest(cd, p.dest) \o CodeJump(cd, p.jump))
    ELSE out

\* ------------------------------------------------------------- state
VARIABLES
    program,       \* the content of the input file, as its segments
    readable,      \* whether the input file can be opened
    pc,            \* where main is: "main", "first", "second", "done"
    parser,        \* the Parser of the running pass
    romAddress,    \* firstPass's counter
    symbolTable,   \* Assembler::symbolTable
    code,          \* Assembler::code
    outFile,       \* the lines written to the output file
    exitStatus,    \* what main returned; -1 while it runs
    romTrace       \* history: romAddress after firstPass had read k segments

vars == <<program, readable, pc, parser, romAddress, symbolTable, code,
          outFile, exitStatus, romTrace>>

\* ------------------------------------------------------------- inputs
\* The raw lines source files are made of: literal, symbolic and predefined
\* address commands, label declarations, compute commands (one with a vertical
\* tab, a blank and a comment, one with a computation the table lacks), a line of no
\* shape, a blank line and a comment-only line.
Lines ==
    { <<"@", "2">>,
      <<"@", "a">>,
      <<"@", "b">>,
      <<"@", "S", "P">>,
      <<"(", "a", ")">>,
      <<"(", "2", ")">>,
      <<"D", VerticalTab, "=", "M", " ", "/", "/", "c">>,
      <<"0", ";", "J", "M", "P">>,
      <<"D", "=", "X">>,
      <<"x">>,
      <<>>,
      <<"/", "/", "c">> }

SeqsUpTo(S, n) == UNION {[1..k -> S] : k \in 1..n}

Programs == SeqsUpTo(Lines, MaxLines)

\* One-line files over the characters parseCCommand looks for.
ParseAlphabet == {"D", "=", ";"}
ParsePrograms == {<<l>> : l \in SeqsUpTo(ParseAlphabet, MaxLen)}

\* One-line files dest=comp;jump, over the mnemonics of the three tables.
CodePrograms ==
    {<<d \o <<"=">> \o c \o <<";">> \o j>> :
        d \in DOMAIN initDestTable, c \in DOMAIN initCompTable,
        j \in DOMAIN initJumpTable}

\* ------------------------------------------------------------- actions
\* main, line 291: the Assembler is constructed; the file is either a
\* readable one with some content or one that cannot be opened.
InitWith(files) ==
    /\ \/ readable = TRUE /\ program \in files
       \/ readable = FALSE /\ program = <<>>
    /\ pc = "main"
    /\ parser = NewParser(INVALID_COMMAND)
    /\ romAddress = 0
    /\ symbolTable = NewSymbolTable
    /\ code = NewCode
    /\ outFile = <<>>
    /\ exitStatus = -1
    /\ romTrace = (0 :> 0)

Init == InitWith(Programs)

\* main calls assemble, which enters firstPass (lines 292, 236, 242-243).
FirstPassBegin ==
    /\ pc = "main"
    /\ pc' = "first"
    /\ \E uninit \in UninitializedCommandType : parser' = NewParser(uninit)
    /\ romAddress' = 0
    /\ UNCHANGED <<program, readable, symbolTable, code, outFile, exitStatus, romTrace>>

\* One iteration of firstPass's loop (lines 245-253).
FirstPassStep ==
    /\ pc = "first"
    /\ hasMoreCommands(parser)
    /\ romAddress < MaxRom
    /\ LET p == advance(parser, readable, program)
       IN  /\ parser' = p
           /\ symbolTable' = FirstPassTable(symbolTable, p, romAddress)
           /\ romAddress' = FirstPassRom(p, romAddress)
           /\ romTrace' = Store(romTrace, p.pos, FirstPassRom(p, romAddress))
    /\ UNCHANGED <<program, readable, pc, code, outFile, exitStatus>>

\* firstPass's loop ends and secondPass begins (lines 245, 254, 237, 257-258).
SecondPassBegin ==
    /\ pc = "first"
    /\ ~hasMoreCommands(parser)
    /\ pc' = "second"
    /\ \E uninit \in UninitializedCommandType : parser' = NewParser(uninit)
    /\ outFile' = <<>>
    /\ UNCHANGED <<program, readable, romAddress, symbolTable, code, exitStatus, romTrace>>

\* One iteration of secondPass's loop (lines 260-279).
SecondPassStep ==
    /\ pc = "second"
    /\ hasMoreCommands(parser)
    /\ LET p == advance(parser, readable, program)
       IN  /\ parser' = p
           /\ symbolTable' = SecondPassTable(symbolTable, p)
           /\ code' = SecondPassCode(code, p)
           /\ outFile' = SecondPassOutput(outFile, symbolTable, code, p)
    /\ UNCHANGED <<program, readable, pc, romAddress, exitStatus, romTrace>>

\* secondPass's loop ends, the output is closed and main returns 0
\* (lines 260, 281, 294).
SecondPassEnd ==
    /\ pc = "second"
    /\ ~hasMoreCommands(parser)
    /\ pc' = "done"
    /\ exitStatus' = 0
    /\ UNCHANGED <<program, readable, parser, romAddress, symbolTable, code,
                   outFile, romTrace>>

Next ==
    \/ FirstPassBegin
    \/ FirstPassStep
    \/ SecondPassBegin
    \/ SecondPassStep
    \/ SecondPassEnd

Spec == Init /\ [][Next]_vars

\* The run is not suspended: a step that can be taken is taken.
FairSpec == Init /\ [][Next]_vars /\ WF_vars(Next)

ParseInit == InitWith(ParsePrograms)
ParseSpec == ParseInit /\ [][Next]_vars

CodeInit == InitWith(CodePrograms)
CodeSpec == CodeInit /\ [][Next]_vars

\* ------------------------------------------------------------- the source, line by line
\* What the classifier makes of one raw line taken alone: "BLANK" when
\* nothing is left of it, else the command type parseCommand gives it.
ParsedAlone(raw) ==
    parseCommand([NewParser(INVALID_COMMAND) EXCEPT !.currentCommand = StripLine(raw)])

ClassOf(raw) ==
    IF StripLine(raw) = <<>> THEN "BLANK" ELSE ParsedAlone(raw).commandType

IsInstruction(raw) == ClassOf(raw) \in {A_COMMAND, C_COMMAND}

\* The number of AddressCommand and ComputeCommand lines among the first k.
InstructionsIn(k) == Cardinality({i \in 1..k : IsInstruction(program[i])})

\* The lines that declare the label name, and the names the source declares.
Declarations(name) ==
    {i \in 1..Len(program) :
        ClassOf(program[i]) = L_COMMAND /\ ParsedAlone(program[i]).symbol = name}

LabelNames ==
    {ParsedAlone(program[i]).symbol :
        i \in {j \in 1..Len(program) : ClassOf(program[j]) = L_COMMAND}}

\* The file opens and its first line is a command, so that every command
\* type the passes read was set by parseCommand.
FirstLineIsCommand == readable /\ StripLine(program[1]) # <<>>

IsBinary(line) == \A i \in 1..Len(line) : line[i] \in {"0", "1"}

\* A step of secondPass's loop.
InSecondPassStep == pc = "second" /\ pc' = "second"

\* ------------------------------------------------------------- claims
\* C1: when the run is over, the output has as many lines as the source has
\* AddressCommand and ComputeCommand lines; label, invalid, blank and
\* comment-only lines add none.  (Stated for sources whose first line is a
\* command, where no uninitialized command type is read.)
C1_OutputLineCount ==
    (pc = "done" /\ FirstLineIsCommand) => Len(outFile) = InstructionsIn(Len(program))

\* C2: after pass 1 every declared label is bound to the number of
\* AddressCommand and ComputeCommand lines before a declaration of it.
\* (Stated for sources whose first line is a command.)
C2_LabelIsInstructionCount ==
    (pc \in {"second", "done"} /\ FirstLineIsCommand) =>
        \A name \in LabelNames :
            /\ name \in DOMAIN symbolTable.table
            /\ \E i \in Declarations(name) :
                   symbolTable.table[name] = InstructionsIn(i - 1)

\* C3: every line written to the output has 16 characters, each '0' or '1'.
\* (Stated for sources whose first line is a command.)
C3_SixteenBits ==
    FirstLineIsCommand =>
        \A i \in 1..Len(outFile) : Len(outFile[i]) = 16 /\ IsBinary(outFile[i])

\* The lines among the first k that carry a symbolic address operand which
\* is neither predefined nor a declared label, and the operand of such a line.
Operand(i) == ParsedAlone(program[i]).symbol

VariableLines(k) ==
    {i \in 1..k :
        /\ ClassOf(program[i]) = A_COMMAND
        /\ ~isdigit(FirstChar(Operand(i)))
        /\ Operand(i) \notin DOMAIN PredefinedTable
        /\ Operand(i) \notin LabelNames}

\* The distinct operands among those lines that occur before line i.
VariablesBefore(i) == {Operand(j) : j \in VariableLines(i - 1)}

\* The line where the operand of line i occurs first.
FirstOccurrence(i) ==
    CHOOSE j \in VariableLines(i) :
        /\ Operand(j) = Operand(i)
        /\ \A h \in VariableLines(j - 1) : Operand(h) # Operand(i)

\* C4: when pass 2 has read k lines of a readable source, each symbolic
\* operand among them that is neither predefined nor a label is bound to 16
\* plus the number of distinct such operands that occur before its first
\* occurrence: one new address per name, in first-occurrence order, without
\* gaps, and the same address at every later occurrence.
C4_FirstOccurrenceOrder ==
    (readable /\ pc \in {"second", "done"}) =>
        LET k == parser.pos
        IN  \A i \in VariableLines(k) :
                   /\ Operand(i) \in DOMAIN symbolTable.table
                   /\ symbolTable.table[Operand(i)]
                          = VAR_ADDRESS + Cardinality(VariablesBefore(FirstOccurrence(i)))

\* C5, as claimed: no step changes the address of a bound name.
C5_NeverRebound ==
    [][\A sym \in DOMAIN symbolTable.table :
           /\ sym \in DOMAIN symbolTable'.table
           /\ symbolTable'.table[sym] = symbolTable.table[sym]]_vars

\* C5, amended: a bound name stays bound, and its address changes only when
\* pass 1 processes a label declaration of that name, which rebinds it to the
\* ROM counter; pass 2 changes no binding.
C5_ReboundOnlyByLabel ==
    [][\A sym \in DOMAIN symbolTable.table :
           /\ sym \in DOMAIN symbolTable'.table
           /\ symbolTable'.table[sym] # symbolTable.table[sym] =>
                  /\ pc = "first"
                  /\ parser'.commandType = L_COMMAND
                  /\ parser'.symbol = sym
                  /\ symbolTable'.table[sym] = romAddress]_vars

\* C5 witness: a label was declared twice around an instruction, and pass 2
\* allocated a variable afterwards.
C5_Witness ==
    /\ pc = "done"
    /\ program = << <<"(", "a", ")">>, <<"@", "b">>, <<"(", "a", ")">> >>
    /\ symbolTable.table[<<"a">>] = 1
    /\ symbolTable.table[<<"b">>] = 16

\* C6: when the input file cannot be opened, the run ends, and not with the
\* status 0.
C6_UnreadableInputFails == (~readable) ~> (pc = "done" /\ exitStatus # 0)

\* C7: for a line classified as a ComputeCommand, dest is the text before the
\* first '=' (empty without '='), comp the text of the remainder before the
\* remainder's first ';', jump the text after that ';' (empty without it).
C7_Fields ==
    (parser.commandType = C_COMMAND /\ parser.currentCommand # <<>>) =>
        LET c == parser.currentCommand
            hasEq == Find(c, "=") # npos
            rest == IF hasEq THEN SubSeq(c, Find(c, "=") + 2, Len(c)) ELSE c
            hasSemi == Find(rest, ";") # npos
        IN  /\ parser.dest = IF hasEq THEN SubSeq(c, 1, Find(c, "=")) ELSE <<>>
            /\ parser.comp = IF hasSemi THEN SubSeq(rest, 1, Find(rest, ";")) ELSE rest
            /\ parser.jump = IF hasSemi
                             THEN SubSeq(rest, Find(rest, ";") + 2, Len(rest))
                             ELSE <<>>

\* C8: each table is injective on its 8, 28 and 8 mnemonics with codes of
\* width 3, 7 and 3, and the comp, dest and jump fields of an encoded compute
\* command, looked up in the reversed tables, give back the mnemonics of the
\* line.
Injective(t, keys, width) ==
    /\ keys \subseteq DOMAIN t
    /\ \A k \in keys : Len(t[k]) = width /\ IsBinary(t[k])
    /\ \A k1, k2 \in keys : t[k1] = t[k2] => k1 = k2

Decode(t, keys, bits) ==
    IF \E k \in keys : t[k] = bits THEN CHOOSE k \in keys : t[k] = bits ELSE <<"?">>

C8_RoundTrip ==
    /\ Cardinality(DOMAIN initDestTable) = 8
    /\ Cardinality(DOMAIN initCompTable) = 28
    /\ Cardinality(DOMAIN initJumpTable) = 8
    /\ Injective(code.destTable, DOMAIN initDestTable, 3)
    /\ Injective(code.compTable, DOMAIN initCompTable, 7)
    /\ Injective(code.jumpTable, DOMAIN initJumpTable, 3)
    /\ (pc = "done" /\ readable) =>
        /\ Len(outFile) = 1
        /\ Len(outFile[1]) = 16
        /\ SubSeq(outFile[1], 1, 3) = <<"1", "1", "1">>
        /\ LET c == Decode(code.compTable, DOMAIN initCompTable, SubSeq(outFile[1], 4, 10))
               d == Decode(code.destTable, DOMAIN initDestTable, SubSeq(outFile[1], 11, 13))
               j == Decode(code.jumpTable, DOMAIN initJumpTable, SubSeq(outFile[1], 14, 16))
           IN  /\ c = parser.comp /\ d = parser.dest /\ j = parser.jump
               /\ program = <<d \o <<"=">> \o c \o <<";">> \o j>>

\* C8 witness: AMD=D|M;JMP was encoded.
C8_Witness ==
    /\ pc = "done"
    /\ parser.dest = <<"A", "M", "D">>
    /\ parser.comp = <<"D", "|", "M">>
    /\ parser.jump = <<"J", "M", "P">>
    /\ outFile = << <<"1", "1", "1", "1", "0", "1", "0", "1", "0", "1",
                      "1", "1", "1", "1", "1", "1">> >>

\* C9: in pass 2 every label the source declares is bound already; an address
\* command whose symbol (an operand not starting with a digit) is a declared
\* label is encoded with the label's address and allocates nothing; and the
\* variable counter advances only for a name that is neither predefined nor a
\* declared label.
C9_LabelsBound ==
    pc \in {"second", "done"} => LabelNames \subseteq DOMAIN symbolTable.table

C9_Step ==
    InSecondPassStep =>
        LET p == parser'
            st == symbolTable
        IN  /\ (/\ p.commandType = A_COMMAND
                /\ ~isdigit(FirstChar(p.symbol))
                /\ p.symbol \in LabelNames) =>
                   /\ symbolTable' = st
                   /\ outFile' = Append(outFile,
                                        <<"0">> \o Bitset(ADDRESS_LEN, st.table[p.symbol]))
            /\ symbolTable'.nextVariableAddress # st.nextVariableAddress =>
                   /\ p.symbol \notin DOMAIN PredefinedTable
                   /\ p.symbol \notin LabelNames

C9_ForwardReference == []C9_LabelsBound /\ [][C9_Step]_vars

\* C9 witness: @a was encoded before the line that declares (a) was read
\* again, with the address 1 pass 1 gave the label, and no variable exists.
C9_Witness ==
    /\ pc = "second"
    /\ program = << <<"@", "a">>, <<"(", "a", ")">>, <<"@", "b">> >>
    /\ parser.pos = 1
    /\ outFile = << <<"0">> \o Bitset(ADDRESS_LEN, 1) >>
    /\ symbolTable.nextVariableAddress = VAR_ADDRESS

\* C10: for a source whose first line is a command, when pass 2 has read k
\* segments it has written as many lines as pass 1's counter held after k
\* segments; and when pass 2 reads the declaration of a label declared once,
\* the label's address is the number of lines written so far, the 0-based
\* position of the next line written.
C10_InStep ==
    (FirstLineIsCommand /\ pc \in {"second", "done"}) =>
        /\ Len(outFile) = romTrace[parser.pos]
        /\ (/\ parser.commandType = L_COMMAND
            /\ parser.currentCommand # <<>>
            /\ Cardinality(Declarations(parser.symbol)) = 1) =>
               symbolTable.table[parser.symbol] = Len(outFile)

\* C10 witness: a blank line lies between an instruction and a label; pass 2
\* has written two lines when it reads the declaration, and the label is
\* bound to 2.
C10_Witness ==
    /\ pc = "done"
    /\ program = << <<"@", "2">>, <<>>, <<"(", "a", ")">> >>
    /\ symbolTable.table[<<"a">>] = 2
    /\ Len(outFile) = 2

====
